---------------------------- MODULE Spec2Model ----------------------------
(***************************************************************************)
(* A model of obf.py (OBF_Load): the expansion of a flat mapping of        *)
(* compound keys ("loop.1+trial.2") into a tree of lists and dicts         *)
(* (parse_keys, specification Spec), and the walk of the tree that applies *)
(* the conventions (process_values, specification SpecWalk).               *)
(*                                                                         *)
(* Python strings are sequences of one-character strings, so that split,   *)
(* lower, int() and the regular expressions are computed and not assumed.  *)
(* Python values are tagged records:                                       *)
(*   None  [t |-> "None"]                                                  *)
(*   str   [t |-> "str",  s |-> chars]                                     *)
(*   list  [t |-> "list", l |-> <<values>>, by |-> "yaml" or "builder"]    *)
(*   dict  [t |-> "dict", d |-> function from strings to values]           *)
(* The field by of a list is its identity's origin: a list yaml.safe_load  *)
(* returned inside a value, or a list _add_datum created.  The code never  *)
(* reads it.  The keys of a dict are strings.                              *)
(***************************************************************************)
EXTENDS Integers, Sequences, FiniteSets, TLC

VARIABLES
    data,        \* self.data: the flat mapping, grown into the result tree
    report,      \* self.report: list of messages
    name_cache,  \* self.name_cache: the build strings already instantiated
    base_index,  \* self.base_index, or Unset when the attribute was never assigned
    prepro,      \* self.prepro: the header's preprocess directives
    other_keys,  \* the keys `for key in other_keys` has still to visit
    key,         \* the loop variable of parse_keys (<<>> before the first pass)
    placed,      \* keys whose _add_datum call has returned
    flat,        \* the flat mapping process_yaml returned (never changes)
    exc,         \* the exception that left __init__, "none" while there is none
    pc,          \* "parse_keys", "parsed", "walked", "done" or "aborted"
    conventions, \* the conventions the caller passed: hot key -> name of the action
    walks,       \* the number of calls of process_values so far
    log          \* what the last process_values did, in order (read by properties only)

vars == <<data, report, name_cache, base_index, prepro, other_keys, key,
          placed, flat, exc, pc, conventions, walks, log>>

\* the variables parse_keys leaves alone
walkvars == <<conventions, walks, log>>

-----------------------------------------------------------------------------
(* Bounds of the model *)

\* largest number of top-level keys in the flat mapping
MaxKeys == 2
\* deepest all-zero compound key d1.0+...+dn.0 offered to the parser
MaxDepth == 3
\* largest number of calls of process_values on one object
MaxWalks == 2

-----------------------------------------------------------------------------
(* Strings *)

Digits == {"0", "1", "2", "3", "4", "5", "6", "7", "8", "9"}
Uppers == {"A", "B", "M", "S", "U", "N", "I", "T", "X"}
Lowers == {"a", "b", "c", "d", "e", "f", "g", "h", "i", "j", "k", "l", "m",
           "n", "o", "p", "q", "r", "s", "t", "u", "v", "w", "x", "y", "z"}

\* str.lower() on one character
LowerChar(c) ==
    CASE c = "A" -> "a" [] c = "B" -> "b" [] c = "M" -> "m" [] c = "S" -> "s"
      [] c = "U" -> "u" [] c = "N" -> "n" [] c = "I" -> "i" [] c = "T" -> "t"
      [] c = "X" -> "x" [] OTHER -> c

\* str.lower()
Lower(s) == [i \in 1..Len(s) |-> LowerChar(s[i])]

\* str.find(c) + 1: the position of the first c in s, 0 when there is none
Find(s, c) ==
    IF \E i \in 1..Len(s) : s[i] = c
    THEN CHOOSE i \in 1..Len(s) : s[i] = c /\ \A j \in 1..(i-1) : s[j] # c
    ELSE 0

\* str.split(c, 1): one or two parts
Split1(s, c) ==
    LET p == Find(s, c)
    IN  IF p = 0 THEN <<s>>
        ELSE <<SubSeq(s, 1, p - 1), SubSeq(s, p + 1, Len(s))>>

\* str.split(c): all parts
RECURSIVE SplitAll(_, _)
SplitAll(s, c) ==
    LET p == Find(s, c)
    IN  IF p = 0 THEN <<s>>
        ELSE <<SubSeq(s, 1, p - 1)>> \o SplitAll(SubSeq(s, p + 1, Len(s)), c)

\* _numeric_re = ^\d+$
IsNumeric(s) == Len(s) >= 1 /\ \A i \in 1..Len(s) : s[i] \in Digits

DigitVal(c) ==
    CASE c = "0" -> 0 [] c = "1" -> 1 [] c = "2" -> 2 [] c = "3" -> 3
      [] c = "4" -> 4 [] c = "5" -> 5 [] c = "6" -> 6 [] c = "7" -> 7
      [] c = "8" -> 8 [] c = "9" -> 9

\* int(index) on a string of decimal digits
RECURSIVE ToInt(_)
ToInt(s) ==
    IF Len(s) = 0 THEN 0
    ELSE 10 * ToInt(SubSeq(s, 1, Len(s) - 1)) + DigitVal(s[Len(s)])

\* _valid_var_re = ^[a-zA-Z_][\w]*$
IsValidVar(s) ==
    /\ Len(s) >= 1
    /\ s[1] \in Lowers \cup Uppers \cup {"_"}
    /\ \A i \in 1..Len(s) : s[i] \in Lowers \cup Uppers \cup Digits \cup {"_"}

_UNITS_LABEL == <<"u", "n", "i", "t", "s">>

_UNITS == { <<"m","s">>, <<"s","e","c">>, <<"u","t","i","m","e">>, <<"c","m">>,
            <<"d","e","g">>, <<"h","z">>, <<"p","i","x">>, <<"n","o","r","m">>,
            <<"r","g","b">>, <<"d","k","l">>, <<"l","m","s">>,
            <<"p","e","r","c","e","n","t">>, <<"t","f">>, <<"y","n">>,
            <<"b","o","o","l">>, <<"h","e","x">>,
            <<"b","a","s","e","6","4">> }

\* self.units = map(lambda x: x.lower(), units)
Units == {Lower(u) : u \in _UNITS}

\* the names for which hasattr(a dict, name) is true, among the names of the model
DictAttrs == { <<"g","e","t">>, <<"p","o","p">>, <<"k","e","y","s">> }

\* hasattr(self.data, name): an attribute of the dict object, not a key of it
HasAttr(d, name) == name \in DictAttrs

-----------------------------------------------------------------------------
(* Values *)

NoneV == [t |-> "None"]
Str(s) == [t |-> "str", s |-> s]
ListV(l, who) == [t |-> "list", l |-> l, by |-> who]
EmptyD == [x \in {} |-> NoneV]
DictV(d) == [t |-> "dict", d |-> d]

\* d[k] = v
DictSet(d, k, v) == [x \in (DOMAIN d) \cup {k} |-> IF x = k THEN v ELSE d[x]]
\* del d[k]
DictDel(d, k) == [x \in (DOMAIN d) \ {k} |-> d[x]]

-----------------------------------------------------------------------------
(* Messages of self.report *)

Msg(sev, what, k) == [sev |-> sev, what |-> what, key |-> k]

\* "OBF: WARNING: 'one_indexed' requested, but index 0 received"
WarnIndex0 == Msg("WARNING", "index 0 received", <<>>)
\* "OBF: ERROR: mal-formed complex key '%s'"
ErrMalformed(k) == Msg("ERROR", "mal-formed complex key", k)
\* "OBF: ERROR: '%s' has units '%s', but key conflicts with existing key"
ErrCollision(k) == Msg("ERROR", "key conflicts with existing key", k)
\* "OBF: NOTE: treating '%s' as %s with units %s"
NoteUnits(k) == Msg("NOTE", "treating as name with units", k)

-----------------------------------------------------------------------------
(* parse_keys: compiling a key *)

\* name, index = key.split('.', 1)
KeyName(k) == Split1(k, ".")[1]
KeyIndex(k) == Split1(k, ".")[2]

\* (the comparison without .lower())
IsUnitsLabel_m(index) == index = _UNITS_LABEL

\* index.lower() == _UNITS_LABEL
IsUnitsLabel(index) == Lower(index) = _UNITS_LABEL

\* index.lower() in self.units
IsKnownUnit(index) == Lower(index) \in Units

\* one (name, index, index_type_int) tuple of name_indices
Step(condition) ==
    LET name  == Split1(condition, ".")[1]
        index == Split1(condition, ".")[2]
    IN  IF IsNumeric(index)
        THEN [name |-> name, isint |-> TRUE,  n |-> ToInt(index), s |-> <<>>]
        ELSE [name |-> name, isint |-> FALSE, n |-> 0, s |-> index]

\* the conditions of key.split('+')
Conditions(k) == SplitAll(k, "+")

\* condition.find('.') == -1 for some condition
HasDotlessCondition(k) ==
    \E i \in 1..Len(Conditions(k)) : Find(Conditions(k)[i], ".") = 0

\* name_indices, for a key all of whose conditions hold a '.'
Compile(k) == [i \in 1..Len(Conditions(k)) |-> Step(Conditions(k)[i])]

-----------------------------------------------------------------------------
(* _add_datum *)

\* An element of s_data_build_string: "['name']", "[1]" or "['label']".
\* The string is kept as the sequence of its elements.
PName(name) == [n |-> name]
PIndex(st) == IF st.isint THEN [i |-> st.n] ELSE [s |-> st.s]

\* the value self.base_index never received
Unset == -1

\* what one pass of the loop over name_indices, and the passes after it, leave
Out(node, cache, rep, e) == [node |-> node, cache |-> cache, report |-> rep, exc |-> e]

\* (while len(tmp) <= index+1: one None too many)
GrowList_m(l, index) ==
    [j \in 1..(IF Len(l) <= index + 1 THEN index + 2 ELSE Len(l)) |->
        IF j <= Len(l) THEN l[j] ELSE NoneV]

\* while len(tmp) < index+1: tmp.append(None)
GrowList(l, index) ==
    [j \in 1..(IF Len(l) < index + 1 THEN index + 1 ELSE Len(l)) |->
        IF j <= Len(l) THEN l[j] ELSE NoneV]

\* (xrange(index+2): one None too many)
NewList_m(index) ==
    ListV([j \in 1..(index + 2) |-> IF j = index + 1 THEN DictV(EmptyD) ELSE NoneV],
          "builder")

\* [None for i in xrange(index+1)], then [index] = {}
NewList(index) ==
    ListV([j \in 1..(index + 1) |-> IF j = index + 1 THEN DictV(EmptyD) ELSE NoneV],
          "builder")

\* {"index": {}}
NewDict(index) == DictV(DictSet(EmptyD, index, DictV(EmptyD)))

\* lines 405-410: tmp is an existing list
ExistingList(tmp, index) ==
    LET g == GrowList(tmp.l, index)
    IN  [tmp EXCEPT !.l = IF g[index + 1] = NoneV
                          THEN [g EXCEPT ![index + 1] = DictV(EmptyD)]
                          ELSE g]

\* lines 411-414: tmp is an existing dict
ExistingDict(tmp, index) ==
    IF index \in DOMAIN tmp.d THEN tmp
    ELSE [tmp EXCEPT !.d = DictSet(tmp.d, index, DictV(EmptyD))]

\* tmp[index]
Item(tmp, st) == IF st.isint THEN tmp.l[st.n + 1] ELSE tmp.d[st.s]

\* tmp[index] = v
SetItem(tmp, st, v) ==
    IF st.isint THEN [tmp EXCEPT !.l = [tmp.l EXCEPT ![st.n + 1] = v]]
    ELSE [tmp EXCEPT !.d = DictSet(tmp.d, st.s, v)]

\* if s_data_build_string in self.name_cache
InNameCache(cache, path) == path \in cache

\* index_type_int and type(tmp) == list / not index_type_int and type(tmp) == dict
KindAgrees(st, tmp) ==
    \/ st.isint /\ tmp.t = "list"
    \/ ~st.isint /\ tmp.t = "dict"

\* index == 0 and self.base_index == 1
IsIndex0(st) == st.isint /\ st.n = 0

\* The loop of _add_datum from its i-th pass on, and the final assignment.
\* node is the object s_data_build_string denotes when the pass begins
\* (self.data for i = 1); the result holds that object after the passes.
RECURSIVE AddDatumFrom(_, _, _, _, _, _, _, _)
AddDatumFrom(node, path, name_indices, i, datum, cache, rep, bi) ==
    LET st   == name_indices[i]
        p1   == Append(path, PName(st.name))
        rep1 == IF IsIndex0(st) /\ bi = 1 THEN Append(rep, WarnIndex0) ELSE rep
        \* the passes after this one, tmp being the list or dict at p1
        Rest(tmp, cache1) ==
            IF i = Len(name_indices)
            THEN Out(DictV(DictSet(node.d, st.name, SetItem(tmp, st, datum))),
                     cache1, rep1, "none")
            ELSE LET r == AddDatumFrom(Item(tmp, st), Append(p1, PIndex(st)),
                                       name_indices, i + 1, datum, cache1, rep1, bi)
                 IN  Out(DictV(DictSet(node.d, st.name, SetItem(tmp, st, r.node))),
                         r.cache, r.report, r.exc)
    IN  IF IsIndex0(st) /\ bi = Unset
        THEN Out(node, cache, rep, "AttributeError")
        ELSE IF node.t # "dict"
        THEN \* ['name'] applied to None, a str or a list
             \* (line 418 has flagged the string before the assignment raises)
             Out(node, cache \cup {p1}, rep1, "TypeError")
        ELSE IF InNameCache(cache, p1)
        THEN IF st.name \notin DOMAIN node.d
             THEN Out(node, cache, rep1, "KeyError")
             ELSE LET tmp == node.d[st.name]
                  IN  IF KindAgrees(st, tmp) /\ st.isint
                      THEN Rest(ExistingList(tmp, st.n), cache)
                      ELSE IF KindAgrees(st, tmp)
                      THEN Rest(ExistingDict(tmp, st.s), cache)
                      ELSE Out(node, cache, rep1, "Conflict")
        ELSE Rest(IF st.isint THEN NewList(st.n) ELSE NewDict(st.s),
                  cache \cup {p1})

\* self._add_datum(name_indices, datum, key)
AddDatum(d, name_indices, datum, cache, rep, bi) ==
    AddDatumFrom(d, <<>>, name_indices, 1, datum, cache, rep, bi)

-----------------------------------------------------------------------------
(* The inputs: what process_yaml hands to parse_keys *)

\* the dimension names of the all-zero keys
DimNames == <<"a", "b", "c", "d", "e", "f">>

\* "d1.0+d2.0+...+dn.0"
RECURSIVE ZeroKey(_)
ZeroKey(n) ==
    IF n = 1 THEN <<DimNames[1], ".", "0">>
    ELSE ZeroKey(n - 1) \o <<"+", DimNames[n], ".", "0">>

K_a       == <<"a">>
K_rt      == <<"r","t">>
K_a1      == <<"a",".","1">>
K_a01     == <<"a",".","0","1">>
K_ax      == <<"a",".","x">>
K_a1b1    == <<"a",".","1","+","b",".","1">>
K_a1b2    == <<"a",".","1","+","b",".","2">>
K_a1bx    == <<"a",".","1","+","b",".","x">>
K_axb1    == <<"a",".","x","+","b",".","1">>
K_a1b     == <<"a",".","1","+","b">>
K_a12     == <<"a",".","1",".","2">>
K_aplusb  == <<"a","+","b">>
K_aunits  == <<"a",".","u","n","i","t","s">>
K_aUNITS  == <<"a",".","U","N","I","T","S">>
K_a1bunits == <<"a",".","1","+","b",".","u","n","i","t","s">>
K_rtms    == <<"r","t",".","m","s">>
K_rtMS    == <<"r","t",".","M","S">>
K_getms   == <<"g","e","t",".","m","s">>

\* the keys a flat mapping is drawn from (as process_yaml cleans them)
KeyPool ==
    { K_a, K_rt, K_a1, K_a01, K_ax, K_a1b1, K_a1b2, K_a1bx, K_axb1, K_a1b, K_a12,
      K_aplusb, K_aunits, K_aUNITS, K_a1bunits, K_rtms, K_rtMS, K_getms }
    \cup { ZeroKey(n) : n \in 1..MaxDepth }

V_v     == Str(<<"v">>)
V_w     == Str(<<"w">>)
V_dict  == DictV(DictSet(EmptyD, <<"b">>, V_w))
V_dictl == DictV(DictSet(EmptyD, <<"b">>, ListV(<<V_w>>, "yaml")))
V_list  == ListV(<<V_w, V_w, V_w>>, "yaml")

\* the values yaml.safe_load may have given a key
ValuesFor(k) ==
    IF k = K_a THEN {V_v, V_dict, V_list}
    ELSE IF k = K_a1 THEN {V_v, NoneV, V_dict, V_dictl}
    ELSE IF k = K_a01 THEN {V_w}
    ELSE {V_v}

AllValues == UNION {ValuesFor(k) : k \in KeyPool}

\* the subsets of S of at most n elements
RECURSIVE SubsetsUpTo(_, _)
SubsetsUpTo(S, n) ==
    IF n = 0 THEN {{}}
    ELSE LET P == SubsetsUpTo(S, n - 1)
         IN  P \cup {q \cup {x} : q \in P, x \in S}

FlatMappings ==
    UNION { {f \in [S -> AllValues] : \A k \in S : f[k] \in ValuesFor(k)} :
            S \in SubsetsUpTo(KeyPool, MaxKeys) }

\* the preprocess directives of =Header=
Prepros == { {}, {"one_indexed"}, {"zero_indexed"}, {"strict"} }

\* process_yaml, lines 247-253: self.base_index is assigned only under a directive
BaseIndexAfter(pp) ==
    IF pp = {} THEN Unset
    ELSE IF "zero_indexed" \in pp THEN 0 ELSE 1

\* Compile, computed once for each key of the pool that it accepts
CompiledKeys ==
    [k \in {q \in KeyPool : ~HasDotlessCondition(q)} |-> Compile(k)]

\* name_indices as parse_keys hands it to _add_datum for key k
NameIndices(k) == CompiledKeys[k]

\* other_keys: the keys that are not simple (_valid_var_re)
OtherKeys(d) == {k \in DOMAIN d : ~IsValidVar(k)}

Init ==
    /\ flat \in FlatMappings
    /\ prepro \in Prepros
    /\ data = DictV(flat)
    /\ base_index = BaseIndexAfter(prepro)
    /\ report = <<>>
    /\ name_cache = {}
    /\ other_keys = OtherKeys(flat)
    /\ key = <<>>
    /\ placed = {}
    /\ exc = "none"
    /\ pc = "parse_keys"
    /\ conventions = EmptyD
    /\ walks = 0
    /\ log = <<>>

-----------------------------------------------------------------------------
(* parse_keys: one action per way through the body of `for key in other_keys` *)

\* the loop takes key k
Take(k) ==
    /\ pc = "parse_keys"
    /\ k \in other_keys
    /\ other_keys' = other_keys \ {k}
    /\ key' = k
    /\ UNCHANGED walkvars

\* an exception leaves parse_keys and __init__
Raise(e) ==
    /\ exc' = e
    /\ pc' = "aborted"

\* a compound key: neither name.units nor name.<known unit>
IsStructural(k) ==
    /\ Find(k, ".") # 0
    /\ ~IsUnitsLabel(KeyIndex(k))
    /\ ~IsKnownUnit(KeyIndex(k))

\* line 309 on a key without '.': the tuple assignment raises ValueError
SplitRaises(k) ==
    /\ Take(k)
    /\ Find(k, ".") = 0
    /\ Raise("ValueError")
    /\ UNCHANGED <<data, report, name_cache, base_index, prepro, placed, flat>>

\* lines 311-312: name.units is left where it is
UnitsLabelSkip(k) ==
    /\ Take(k)
    /\ Find(k, ".") # 0
    /\ IsUnitsLabel(KeyIndex(k))
    /\ UNCHANGED <<data, report, name_cache, base_index, prepro, placed, flat,
                   exc, pc>>

\* lines 314-316, 322
UnitsCollision(k) ==
    /\ Take(k)
    /\ Find(k, ".") # 0
    /\ ~IsUnitsLabel(KeyIndex(k))
    /\ IsKnownUnit(KeyIndex(k))
    /\ HasAttr(data, KeyName(k))
    /\ report' = Append(report, ErrCollision(k))
    /\ UNCHANGED <<data, name_cache, base_index, prepro, placed, flat, exc, pc>>

\* the dict after lines 319-321
RenamedUnits(d, k) ==
    LET name  == KeyName(k)
        index == KeyIndex(k)
        d1 == DictSet(d, name, d[k])
        d2 == DictSet(d1, name \o <<".">> \o _UNITS_LABEL, Str(index))
    IN  DictDel(d2, k)

\* lines 314, 317-322
UnitsRename(k) ==
    /\ Take(k)
    /\ Find(k, ".") # 0
    /\ ~IsUnitsLabel(KeyIndex(k))
    /\ IsKnownUnit(KeyIndex(k))
    /\ ~HasAttr(data, KeyName(k))
    /\ report' = Append(report, NoteUnits(k))
    /\ data' = DictV(RenamedUnits(data.d, k))
    /\ UNCHANGED <<name_cache, base_index, prepro, placed, flat, exc, pc>>

\* lines 325-328 on a condition without '.': the error is reported, then the
\* tuple assignment of line 328 raises ValueError
MalformedRaises(k) ==
    /\ Take(k)
    /\ IsStructural(k)
    /\ HasDotlessCondition(k)
    /\ report' = Append(report, ErrMalformed(k))
    /\ Raise("ValueError")
    /\ UNCHANGED <<data, name_cache, base_index, prepro, placed, flat>>

\* lines 324-337: the key is compiled and its datum moved
PlaceDatum(k) ==
    /\ Take(k)
    /\ IsStructural(k)
    /\ ~HasDotlessCondition(k)
    /\ LET r == AddDatum(data, NameIndices(k), data.d[k], name_cache, report,
                         base_index)
       IN  /\ report' = r.report
           /\ name_cache' = r.cache
           /\ IF r.exc = "none"
              THEN /\ data' = DictV(DictDel(r.node.d, k))
                   /\ placed' = placed \cup {k}
                   /\ UNCHANGED <<exc, pc>>
              ELSE /\ data' = r.node
                   /\ placed' = placed
                   /\ Raise(r.exc)
    /\ UNCHANGED <<base_index, prepro, flat>>

\* the loop is exhausted: parse_keys returns
EndParseKeys ==
    /\ pc = "parse_keys"
    /\ other_keys = {}
    /\ pc' = "parsed"
    /\ UNCHANGED <<data, report, name_cache, base_index, prepro, other_keys, key,
                   placed, flat, exc>>
    /\ UNCHANGED walkvars

-----------------------------------------------------------------------------
(* The conventions: hot keys and the actions they trigger *)

\* the hot keys of key_action_dict
M_random_seed == <<"r","a","n","d","o","m","_","s","e","e","d">>
M_mouse       == <<"m","o","u","s","e">>
\* r"^_\d+_$"
M_digits      == <<"^","_","\\","d","+","_","$">>
\* r"^[a-zA-Z_].*\..+$"
M_units       == <<"^","[","a","-","z","A","-","Z","_","]",".","*","\\",".",
                   ".","+","$">>
\* a hot key of the caller's own, r"^_.*$"
M_under       == <<"^","_",".","*","$">>

Letters == Lowers \cup Uppers

\* re.match(r"^_\d+_$", k)
ReDigits(k) ==
    /\ Len(k) >= 3
    /\ k[1] = "_"
    /\ k[Len(k)] = "_"
    /\ IsNumeric(SubSeq(k, 2, Len(k) - 1))

\* (the pattern without its \..+ part)
ReUnits_m(k) == Len(k) >= 1 /\ k[1] \in Letters \cup {"_"}

\* re.match(r"^[a-zA-Z_].*\..+$", k)
ReUnits(k) ==
    /\ Len(k) >= 3
    /\ k[1] \in Letters \cup {"_"}
    /\ \E i \in 2..(Len(k) - 1) : k[i] = "."

\* re.match(r"^_.*$", k)
ReUnder(k) == Len(k) >= 1 /\ k[1] = "_"

\* re.match(regex, k), for the patterns of the model (no key holds a newline)
ReMatch(regex, k) ==
    CASE regex = M_digits -> ReDigits(k)
      [] regex = M_units  -> ReUnits(k)
      [] regex = M_under  -> ReUnder(k)
      [] OTHER            -> FALSE

\* line 471: the test of hot key regex against key k
Matches(regex, k) ==
    \/ regex = k
    \/ /\ regex[1] = "^"
       /\ regex[Len(regex)] = "$"
       /\ ReMatch(regex, k)

\* _label_dot_units_re.match(k) succeeds: ^([a-zA-Z_][^.]*)\.(.+)$
LabelDotUnits(k) ==
    /\ Len(k) >= 3
    /\ k[1] \in Letters \cup {"_"}
    /\ Find(k, ".") # 0
    /\ Find(k, ".") < Len(k)

\* str.replace(c, '')
Remove(s, c) == SelectSeq(s, LAMBDA x : x # c)

\* "OBF: WARN: bad units for '%s."
WarnBadUnits(k) == Msg("WARN", "bad units", k)
\* "OBF: WARNING: ambiguous random_seed 'None'"
WarnSeed == Msg("WARNING", "ambiguous random_seed 'None'", <<>>)
\* "OBF: ERROR: mouse lacks (x,y) or pos[]"
ErrMouse == Msg("ERROR", "mouse lacks (x,y) or pos[]", <<>>)
\* the message of the caller's own action
NoteSome(k) == Msg("NOTE", "some_action", k)

\* what an action returns (None is <<>>, {'new_key': k} is <<k>>) and leaves behind
NoStatus == <<>>
ActOut(d, rep, status, e) ==
    [d |-> d, report |-> rep, status |-> status, exc |-> e]

convert_digits_as_str(this_dict, this_key, rep) ==
    LET new_key == Remove(this_key, "_")
    IN  IF this_key \notin DOMAIN this_dict
        THEN ActOut(this_dict, rep, NoStatus, "KeyError")
        ELSE ActOut(DictDel(DictSet(this_dict, new_key, this_dict[this_key]),
                            this_key),
                    rep, <<new_key>>, "none")

process_units(this_dict, this_key, rep) ==
    IF LabelDotUnits(this_key)
    THEN LET new_key == Split1(this_key, ".")[1]
             units   == Split1(this_key, ".")[2]
             stored  == IF Lower(units) \in Units THEN Lower(units) ELSE units
             d1 == DictSet(this_dict, new_key, this_dict[this_key])
             d2 == DictSet(d1, new_key \o <<".">> \o _UNITS_LABEL, Str(stored))
         IN  IF Lower(units) = _UNITS_LABEL
             THEN ActOut(this_dict, rep, NoStatus, "none")
             ELSE IF this_key \notin DOMAIN this_dict
             THEN ActOut(this_dict, rep, NoStatus, "KeyError")
             ELSE ActOut(DictDel(d2, this_key), rep, <<new_key>>, "none")
    ELSE ActOut(this_dict, Append(rep, WarnBadUnits(this_key)), NoStatus, "none")

screen_random_seed(this_dict, this_key, rep) ==
    IF this_key \notin DOMAIN this_dict
    THEN ActOut(this_dict, rep, NoStatus, "KeyError")
    ELSE IF this_dict[this_key] = Str(<<"N","o","n","e">>)
    THEN ActOut(this_dict, Append(rep, WarnSeed), NoStatus, "none")
    ELSE ActOut(this_dict, rep, NoStatus, "none")

screen_mouse(this_dict, this_key, rep) ==
    IF this_key \notin DOMAIN this_dict
    THEN ActOut(this_dict, rep, NoStatus, "KeyError")
    ELSE LET mouse == this_dict[this_key]
             pos   == <<"p","o","s">>
         IN  IF /\ mouse.t = "dict"
                /\ <<"x">> \notin DOMAIN mouse.d
                /\ <<"y">> \notin DOMAIN mouse.d
                /\ ~ /\ pos \in DOMAIN mouse.d
                     /\ mouse.d[pos].t = "list"
                     /\ Len(mouse.d[pos].l) = 2
             THEN ActOut(this_dict, Append(rep, ErrMouse), NoStatus, "none")
             ELSE ActOut(this_dict, rep, NoStatus, "none")

_do_nothing(this_dict, this_key, rep) ==
    ActOut(this_dict, rep, NoStatus, "none")

\* an action of the caller's own: it writes to this_obj.report and returns None
some_action(this_dict, this_key, rep) ==
    ActOut(this_dict, Append(rep, NoteSome(this_key)), NoStatus, "none")

\* conventions[regex](this_level, key, self), the action given by its name
Call(action, this_dict, this_key, rep) ==
    CASE action = "convert_digits_as_str" ->
             convert_digits_as_str(this_dict, this_key, rep)
      [] action = "process_units"      -> process_units(this_dict, this_key, rep)
      [] action = "screen_random_seed" -> screen_random_seed(this_dict, this_key, rep)
      [] action = "screen_mouse"       -> screen_mouse(this_dict, this_key, rep)
      [] action = "_do_nothing"        -> _do_nothing(this_dict, this_key, rep)
      [] action = "some_action"        -> some_action(this_dict, this_key, rep)

\* key_action_dict of _get_default_conventions()
_get_default_conventions ==
    [regex \in {M_random_seed, M_mouse, M_digits, M_units} |->
        CASE regex = M_random_seed -> "screen_random_seed"
          [] regex = M_mouse       -> "screen_mouse"
          [] regex = M_digits      -> "convert_digits_as_str"
          [] regex = M_units       -> "process_units"]

\* key_action_dict of clear_default_actions()
clear_default_actions ==
    [regex \in DOMAIN _get_default_conventions |-> "_do_nothing"]

\* (the merge with the arguments exchanged)
merged_conv_m(custom) ==
    [regex \in (DOMAIN _get_default_conventions) \cup (DOMAIN custom) |->
        IF regex \in DOMAIN _get_default_conventions
        THEN _get_default_conventions[regex] ELSE custom[regex]]

\* line 149: dict(_get_default_conventions(), **conventions)
merged_conv(custom) ==
    [regex \in (DOMAIN _get_default_conventions) \cup (DOMAIN custom) |->
        IF regex \in DOMAIN custom
        THEN custom[regex] ELSE _get_default_conventions[regex]]

-----------------------------------------------------------------------------
(* process_values: the walk *)

\* one entry of log:
\*   "enter" a dict is entered, snap is the set of its keys at that moment
\*   "key"   the loop of line 466 takes key
\*   "call"  the action of hot key regex is called on key and returns status
\*   "get"   line 480 reads this_level[key]
\* pass numbers the dict pass the entry belongs to
Ev(ev, pass, k, regex, action, status, snap) ==
    [ev |-> ev, pass |-> pass, key |-> k, regex |-> regex, action |-> action,
     status |-> status, snap |-> snap]

\* an order of the characters, to enumerate the keys of a dict
Chars ==
    <<"_", ".", "^", "\\", "$", "+", "0", "1", "2", "3", "4", "5", "6", "7",
      "8", "9", "A", "B", "M", "S", "U", "N", "I", "T", "X", "a", "b", "c",
      "d", "e", "f", "g", "h", "i", "j", "k", "l", "m", "n", "o", "p", "q",
      "r", "s", "t", "u", "v", "w", "x", "y", "z">>
OrdOf ==
    [c \in {Chars[i] : i \in 1..Len(Chars)} |->
        CHOOSE i \in 1..Len(Chars) : Chars[i] = c]
Ord(c) == OrdOf[c]

RECURSIVE Before(_, _)
Before(s, t) ==
    IF s = <<>> THEN t # <<>>
    ELSE IF t = <<>> THEN FALSE
    ELSE IF s[1] = t[1] THEN Before(Tail(s), Tail(t))
    ELSE Ord(s[1]) < Ord(t[1])

\* the elements of S in the order of Before, or in the opposite order
RECURSIVE Sorted(_, _)
Sorted(S, rev) ==
    IF S = {} THEN <<>>
    ELSE LET m == CHOOSE x \in S :
                     \A y \in S \ {x} : IF rev THEN Before(y, x) ELSE Before(x, y)
         IN  <<m>> \o Sorted(S \ {m}, rev)

\* this_level.keys(): a list of the keys the dict has now, in the dict's own
\* order.  The model offers two orders, one the reverse of the other, so that
\* any two keys of a dict are met in both orders.
Keys(d, rev) == Sorted(DOMAIN d, rev)

\* (the loop goes on after a match)
Break_m(rest) == rest

\* line 473: break; nothing of hot_keys is left to try
Break(rest) == <<>>

\* lines 469-473: `for regex in hot_keys`, with todo the hot keys still to try;
\* acc holds the dict, the report, status, the exception and the log so far
RECURSIVE RuleLoop(_, _, _, _, _)
RuleLoop(todo, conv, k, pass, acc) ==
    IF todo = <<>> \/ acc.exc # "none" THEN acc
    ELSE LET regex == Head(todo)
         IN  IF Matches(regex, k)
             THEN LET a == Call(conv[regex], acc.d, k, acc.report)
                      e == Ev("call", pass, k, regex, conv[regex], a.status, {})
                  IN  RuleLoop(Break(Tail(todo)), conv, k, pass,
                               [d |-> a.d, report |-> a.report,
                                status |-> a.status, exc |-> a.exc,
                                log |-> Append(acc.log, e)])
             ELSE RuleLoop(Tail(todo), conv, k, pass, acc)

\* (the key is not replaced)
NewKey_m(status, k) == k

\* lines 475-478: key = status['new_key'] when the action returned one
NewKey(status, k) == IF status # NoStatus THEN status[1] ELSE k

WalkOut(node, rep, lg, e) ==
    [node |-> node, report |-> rep, log |-> lg, exc |-> e]

\* cx = [conv, hot_keys, rev]: the conventions, hot_keys as conventions.keys()
\* returned them, and the order of the dicts' keys
RECURSIVE walk_values(_, _, _, _)
RECURSIVE WalkItems(_, _, _, _, _)
RECURSIVE WalkKeys(_, _, _, _, _, _)

\* lines 462-483
walk_values(this_level, cx, rep, lg) ==
    IF this_level.t = "list" THEN WalkItems(this_level, 1, cx, rep, lg)
    ELSE IF this_level.t = "dict"
    THEN LET pass == Len(lg) + 1
             e == Ev("enter", pass, <<>>, <<>>, "", NoStatus, DOMAIN this_level.d)
         IN  WalkKeys(this_level.d, Keys(this_level.d, cx.rev), pass, cx, rep,
                      Append(lg, e))
    ELSE WalkOut(this_level, rep, lg, "AssertionError")

\* lines 463-465: `for item in this_level`, from item i on
WalkItems(lst, i, cx, rep, lg) ==
    IF i > Len(lst.l) THEN WalkOut(lst, rep, lg, "none")
    ELSE IF lst.l[i].t \in {"list", "dict"}
    THEN LET r == walk_values(lst.l[i], cx, rep, lg)
             l2 == [lst EXCEPT !.l[i] = r.node]
         IN  IF r.exc # "none" THEN WalkOut(l2, r.report, r.log, r.exc)
             ELSE WalkItems(l2, i + 1, cx, r.report, r.log)
    ELSE WalkItems(lst, i + 1, cx, rep, lg)

\* lines 467-481: `for key in this_level.keys()`, with todo the keys of the
\* list still to visit and d the dict as it is now
WalkKeys(d, todo, pass, cx, rep, lg) ==
    IF todo = <<>> THEN WalkOut(DictV(d), rep, lg, "none")
    ELSE LET k == Head(todo)
             e == Ev("key", pass, k, <<>>, "", NoStatus, {})
             a == RuleLoop(cx.hot_keys, cx.conv, k, pass,
                           [d |-> d, report |-> rep, status |-> NoStatus,
                            exc |-> "none", log |-> Append(lg, e)])
             key2 == NewKey(a.status, k)
             lg2 == Append(a.log, Ev("get", pass, key2, <<>>, "", NoStatus, {}))
         IN  IF a.exc # "none" THEN WalkOut(DictV(a.d), a.report, a.log, a.exc)
             ELSE IF key2 \notin DOMAIN a.d
             THEN WalkOut(DictV(a.d), a.report, lg2, "KeyError")
             ELSE IF a.d[key2].t \in {"list", "dict"}
             THEN LET r == walk_values(a.d[key2], cx, a.report, lg2)
                      d2 == DictSet(a.d, key2, r.node)
                  IN  IF r.exc # "none"
                      THEN WalkOut(DictV(d2), r.report, r.log, r.exc)
                      ELSE WalkKeys(d2, Tail(todo), pass, cx, r.report, r.log)
             ELSE WalkKeys(a.d, Tail(todo), pass, cx, a.report, lg2)

\* the hot keys the model knows
HotKeyPool == {M_random_seed, M_mouse, M_digits, M_units, M_under}

\* the lists that hold every element of S once
OrdersOf ==
    [S \in SUBSET HotKeyPool |->
        {s \in [1..Cardinality(S) -> S] :
            \A i, j \in 1..Cardinality(S) : i # j => s[i] # s[j]}]

\* conventions.keys(), line 445: any order of the hot keys
HotKeys(conv) == OrdersOf[DOMAIN conv]

\* self.process_values(merged_conv): line 150, or a later call on the object
ProcessValues(rev) ==
    /\ pc \in {"parsed", "done"}
    /\ walks < MaxWalks
    /\ \E hot_keys \in HotKeys(merged_conv(conventions)) :
         \E r \in { walk_values(data,
                                [conv |-> merged_conv(conventions),
                                 hot_keys |-> hot_keys, rev |-> rev],
                                report, <<>>) } :
             /\ data' = r.node
             /\ report' = r.report
             /\ log' = r.log
             /\ IF r.exc = "none"
                THEN /\ pc' = IF pc = "parsed" THEN "walked" ELSE "done"
                     /\ exc' = exc
                ELSE Raise(r.exc)
    /\ walks' = walks + 1
    /\ UNCHANGED <<name_cache, base_index, prepro, other_keys, key, placed,
                   flat, conventions>>

\* list(set(rep)): every message once.  The order of the list is the set's
\* own; the model keeps the order of the first occurrences.
RECURSIVE Dedup(_)
Dedup(rep) ==
    IF rep = <<>> THEN <<>>
    ELSE LET init == Dedup(SubSeq(rep, 1, Len(rep) - 1))
             last == rep[Len(rep)]
         IN  IF \E i \in 1..Len(init) : init[i] = last THEN init ELSE Append(init, last)

\* line 155, and __init__ returns
Finish ==
    /\ pc = "walked"
    /\ report' = Dedup(report)
    /\ pc' = "done"
    /\ UNCHANGED <<data, name_cache, base_index, prepro, other_keys, key, placed,
                   flat, exc, conventions, walks, log>>

-----------------------------------------------------------------------------
(* __init__ up to the return of parse_keys *)

Next ==
    \/ \E k \in KeyPool : SplitRaises(k)
    \/ \E k \in KeyPool : UnitsLabelSkip(k)
    \/ \E k \in KeyPool : UnitsCollision(k)
    \/ \E k \in KeyPool : UnitsRename(k)
    \/ \E k \in KeyPool : MalformedRaises(k)
    \/ \E k \in KeyPool : PlaceDatum(k)
    \/ EndParseKeys

Spec == Init /\ [][Next]_vars

-----------------------------------------------------------------------------
(* The walk on its own: process_values on the trees parse_keys hands it *)

N_s        == <<"s">>
N_x        == <<"x">>
N_1        == <<"_","1","_">>
N_1ms      == <<"_","1","_",".","m","s">>

One(k, v) == DictSet(EmptyD, k, v)

\* values of the simple key s: what yaml.safe_load may return for a nested map
T_digits       == DictV(One(N_1, V_v))
T_units        == DictV(One(K_rtms, V_v))
T_UNITS        == DictV(One(K_rtMS, V_v))
T_foo          == DictV(One(<<"r","t",".","f","o","o">>, V_v))
T_digits_units == DictV(One(N_1ms, V_v))
T_abms         == DictV(One(<<"a",".","b",".","m","s">>, V_v))
T_normal       == DictV(DictSet(One(K_rt, V_v), K_rt \o <<".">> \o _UNITS_LABEL,
                                Str(<<"m","s">>)))
T_both         == DictV(DictSet(One(K_rt, V_v), K_rtms, V_w))
T_nested       == DictV(One(K_rtms, T_digits))
T_list         == ListV(<<T_digits, V_w>>, "yaml")
T_literal      == DictV(One(M_digits, V_v))
T_literal_units == DictV(One(M_units, V_v))
T_plain        == DictV(One(N_x, V_v))

\* the values a top-level simple key may have
TopValues(k) ==
    CASE k = N_s -> {T_digits, T_units, T_UNITS, T_foo, T_digits_units, T_abms,
                     T_normal, T_both, T_nested, T_list, T_literal,
                     T_literal_units, T_plain}
      [] k = M_mouse ->
            { DictV(DictSet(One(N_x, V_v), <<"y">>, V_v)),
              DictV(One(<<"p","o","s">>, ListV(<<V_v, V_v>>, "yaml"))),
              DictV(One(<<"p","o","s">>, V_v)),
              V_v }
      [] k = M_random_seed -> {Str(<<"N","o","n","e">>), V_v}

TopKeys == {N_s, M_mouse, M_random_seed}

\* self.data when parse_keys returns, for flat mappings of simple keys (the
\* mapping itself): one key, or mouse and random_seed together
WalkTrees ==
    UNION { { DictV(f) : f \in {g \in [S -> UNION {TopValues(k) : k \in TopKeys}] :
                                  \A k \in S : g[k] \in TopValues(k)} } :
            S \in {{N_s}, {M_mouse}, {M_random_seed}, {M_mouse, M_random_seed}} }

\* the conventions a caller may pass to OBF_Load
ConventionSets ==
    { EmptyD, clear_default_actions, One(M_digits, "_do_nothing"),
      One(M_under, "some_action") }

\* the object when parse_keys has returned
InitWalk ==
    /\ data \in WalkTrees
    /\ flat = data.d
    /\ prepro = {}
    /\ base_index = Unset
    /\ report = <<>>
    /\ name_cache = {}
    /\ other_keys = {}
    /\ key = <<>>
    /\ placed = {}
    /\ exc = "none"
    /\ pc = "parsed"
    /\ conventions \in ConventionSets
    /\ walks = 0
    /\ log = <<>>

NextWalk ==
    \/ \E rev \in BOOLEAN : ProcessValues(rev)
    \/ Finish

SpecWalk == InitWalk /\ [][NextWalk]_vars

-----------------------------------------------------------------------------
(* Reading the tree and the loop, for the properties below *)

Missing == [t |-> "missing"]

\* the object a build string denotes in node, Missing when Python would raise
RECURSIVE NodeAt(_, _)
NodeAt(node, path) ==
    IF path = <<>> THEN node
    ELSE LET e == Head(path)
         IN  IF DOMAIN e = {"i"}
             THEN IF node.t = "list" /\ e.i < Len(node.l)
                  THEN NodeAt(node.l[e.i + 1], Tail(path))
                  ELSE Missing
             ELSE LET x == IF DOMAIN e = {"n"} THEN e.n ELSE e.s
                  IN  IF node.t = "dict" /\ x \in DOMAIN node.d
                      THEN NodeAt(node.d[x], Tail(path))
                      ELSE Missing

\* the build string of name_indices up to the name of step i
RECURSIVE PathTo(_, _)
PathTo(name_indices, i) ==
    IF i = 1 THEN <<PName(name_indices[1].name)>>
    ELSE PathTo(name_indices, i - 1)
            \o <<PIndex(name_indices[i - 1]), PName(name_indices[i].name)>>

\* the build string of name_indices up to the index of step i
PathThrough(name_indices, i) ==
    Append(PathTo(name_indices, i), PIndex(name_indices[i]))

InReport(rep, m) == \E i \in 1..Len(rep) : rep[i] = m

\* this step of parse_keys is the pass of the loop for key k
Taken(k) == k \in other_keys /\ other_keys' = other_keys \ {k}

\* k reaches _add_datum
IsCompiled(k) == IsStructural(k) /\ ~HasDotlessCondition(k)

Max(S) == CHOOSE x \in S : \A y \in S : y <= x

-----------------------------------------------------------------------------
(* C1 *)

\* "OBF: ERROR: ... conflicting key-types, key '%s'", were it appended to the report
ErrConflict(k) == Msg("ERROR", "conflicting key-types", k)

\* _add_datum meets a kind mismatch for key k in the current state
MeetsConflict(k) ==
    AddDatum(data, NameIndices(k), data.d[k], name_cache, report, base_index).exc
        = "Conflict"

\* C1: a kind conflict is never fatal.  Whenever the pass for a key meets a
\* container of the other kind at a path prefix already created, an ERROR naming
\* the key is recorded, no exception leaves the run and the loop goes on to the
\* other keys.
C1_ConflictNotFatal ==
    [][ \A k \in KeyPool :
          (Taken(k) /\ IsCompiled(k) /\ MeetsConflict(k))
             => /\ exc' = "none"
                /\ pc' = "parse_keys"
                /\ InReport(report', ErrConflict(k)) ]_vars

-----------------------------------------------------------------------------
(* C2 *)

\* the number of '.' in s
RECURSIVE CountDots(_)
CountDots(s) ==
    IF s = <<>> THEN 0
    ELSE (IF Head(s) = "." THEN 1 ELSE 0) + CountDots(Tail(s))

\* some '+'-segment of k holds zero '.' or more than one
HasBadSegment(k) ==
    \E i \in 1..Len(Conditions(k)) : CountDots(Conditions(k)[i]) # 1

\* C2: a non-simple key with a '+'-segment of zero or several '.' is a
\* MalformedKey: an ERROR is recorded, the key's value leaves the mapping without
\* being placed anywhere in the tree, and the loop goes on.
C2_MalformedKeyDropped ==
    [][ \A k \in KeyPool :
          (Taken(k) /\ HasBadSegment(k))
             => /\ InReport(report', ErrMalformed(k))
                /\ data' = DictV(DictDel(data.d, k))
                /\ exc' = "none"
                /\ pc' = "parse_keys" ]_vars

-----------------------------------------------------------------------------
(* C3 *)

\* Following name_indices from step i through node, some step's name is present
\* in its container with an object of the other kind.
RECURSIVE TreeDisagrees(_, _, _)
TreeDisagrees(node, name_indices, i) ==
    LET st == name_indices[i]
    IN  /\ node.t = "dict"
        /\ st.name \in DOMAIN node.d
        /\ LET tmp == node.d[st.name]
           IN  \/ ~KindAgrees(st, tmp)
               \/ /\ i < Len(name_indices)
                  /\ NodeAt(tmp, <<PIndex(st)>>) # Missing
                  /\ TreeDisagrees(NodeAt(tmp, <<PIndex(st)>>), name_indices, i + 1)

\* C3: presence is decided by the tree.  Whenever a step's name is present in
\* the current container with a kind that disagrees with the step, whoever put
\* it there, the placement does not go through and the tree keeps every node it
\* had: no existing node is replaced by a fresh list or dict.
C3_ExistingNodeKept ==
    [][ \A k \in KeyPool :
          (Taken(k) /\ IsCompiled(k) /\ TreeDisagrees(data, NameIndices(k), 1))
             => /\ exc' # "none"
                /\ data' = data ]_vars

-----------------------------------------------------------------------------
(* C4 *)

\* the Ordinal indices the placed keys used at build string p
UsedIndices(p) ==
    { NameIndices(k)[i].n :
        k \in {q \in placed : \E i \in 1..Len(NameIndices(q)) :
                                 /\ NameIndices(q)[i].isint
                                 /\ PathTo(NameIndices(q), i) = p},
        i \in {j \in 1..Len(p) : 2 * j - 1 = Len(p)} }

\* object x is a list _add_datum created, of the length the indices in U ask for
\* and None wherever no index of U points
RightLength(x, U) ==
    (x.t = "list" /\ x.by = "builder")
       => /\ U # {}
          /\ Len(x.l) = Max(U) + 1
          /\ \A j \in 0..(Len(x.l) - 1) : j \notin U => x.l[j + 1] = NoneV

\* C4: while parse_keys runs and when it has returned, every list the builder
\* created has length (largest Ordinal index placed on its path) + 1, and holds
\* None at every position no placed key addressed.
C4_SequenceLength ==
    pc \in {"parse_keys", "parsed"}
       => \A p \in name_cache : RightLength(NodeAt(data, p), UsedIndices(p))

\* a.1+b.1 and a.1+b.2 are placed: a has length 2 with None at 0, a[1].b has
\* length 3 with None at 0
C4_Witness ==
    /\ pc = "parsed"
    /\ placed = {K_a1b1, K_a1b2}
    /\ Len(NodeAt(data, <<PName(<<"a">>)>>).l) = 2
    /\ NodeAt(data, <<PName(<<"a">>), [i |-> 0]>>) = NoneV
    /\ NodeAt(data, <<PName(<<"a">>), [i |-> 1], PName(<<"b">>)>>)
          = ListV(<<NoneV, V_v, V_v>>, "builder")

-----------------------------------------------------------------------------
(* C5 *)

\* a WARNING that key k repeats a position, were the code to append one
WarnRepeated(k) == Msg("WARNING", "key repeated", k)

\* the position the last step of name_indices addresses
Target(name_indices) == PathThrough(name_indices, Len(name_indices))

\* the last step is Ordinal and its position, in a list an earlier placement
\* created, holds a value other than None
OverwritesInList(name_indices) ==
    /\ name_indices[Len(name_indices)].isint
    /\ PathTo(name_indices, Len(name_indices)) \in name_cache
    /\ NodeAt(data, Target(name_indices)) \notin {Missing, NoneV}

\* C5: when the last step of a key is Ordinal and its position already holds a
\* value other than None, the value is replaced and a WARNING "key repeated" is
\* recorded; a Label overwrite records nothing.
C5_RepeatedKeyWarned ==
    [][ \A k \in KeyPool :
          (Taken(k) /\ IsCompiled(k) /\ exc' = "none")
             => /\ OverwritesInList(NameIndices(k))
                     => /\ InReport(report', WarnRepeated(k))
                        /\ NodeAt(data', Target(NameIndices(k))) = data.d[k]
                /\ ~NameIndices(k)[Len(NameIndices(k))].isint
                     => ~InReport(report', WarnRepeated(k)) ]_vars

-----------------------------------------------------------------------------
(* C6 *)

\* C6: the units rename never overwrites.  When name.<unit> is to become name
\* and name.units and the mapping already has a key name, a Collision ERROR is
\* recorded and the mapping is left as it was.
C6_RenameNeverOverwrites ==
    [][ \A k \in KeyPool :
          (/\ Taken(k)
           /\ Find(k, ".") # 0
           /\ Lower(KeyIndex(k)) \in Units
           /\ KeyName(k) \in DOMAIN data.d)
             => /\ InReport(report', ErrCollision(k))
                /\ data' = data ]_vars

-----------------------------------------------------------------------------
(* C7 *)

\* some position name_indices passes through before its last step, in a
\* container an earlier placement created, holds a str
PassesThroughScalar(name_indices) ==
    \E i \in 1..(Len(name_indices) - 1) :
        /\ PathTo(name_indices, i) \in name_cache
        /\ NodeAt(data, PathThrough(name_indices, i)).t = "str"

\* the tree a.1+b.1 and a.1+b.2, each with value v, must give
SharedPrefixTree ==
    DictV(DictSet(EmptyD, <<"a">>,
        ListV(<<NoneV,
                DictV(DictSet(EmptyD, <<"b">>,
                              ListV(<<NoneV, V_v, V_v>>, "builder")))>>,
              "builder")))

\* C7: two keys that share a prefix of agreeing steps raise no conflict and
\* reuse the map at the shared position (a.1+b.1 and a.1+b.2 give a[1].b =
\* [None, v, v]); a key that passes through a position holding a scalar is a
\* conflict.
C7_SharedPrefix ==
    [][ /\ (pc' = "parsed" /\ DOMAIN flat = {K_a1b1, K_a1b2}) => data' = SharedPrefixTree
        /\ \A k \in KeyPool :
             (Taken(k) /\ IsCompiled(k) /\ PassesThroughScalar(NameIndices(k)))
                => exc' = "Conflict" ]_vars

-----------------------------------------------------------------------------
(* C8 *)

\* levels i..n of the tree of d1.0+...+dn.0: v
RECURSIVE NestedFrom(_, _, _)
NestedFrom(i, n, v) ==
    DictV(DictSet(EmptyD, <<DimNames[i]>>,
                  ListV(<<IF i = n THEN v ELSE NestedFrom(i + 1, n, v)>>, "builder")))

\* C8: a single key d1.0+...+dn.0 with value v, placed in an empty tree, gives
\* n nested levels: each name maps to a list of length 1 whose element is the
\* one-entry map of the next level, the innermost element being v.
C8_NestedLevels ==
    \A n \in 1..MaxDepth :
        (pc = "parsed" /\ DOMAIN flat = {ZeroKey(n)})
            => data = NestedFrom(1, n, flat[ZeroKey(n)])

C8_Witness ==
    /\ pc = "parsed"
    /\ DOMAIN flat = {ZeroKey(MaxDepth)}
    /\ placed = {ZeroKey(MaxDepth)}
    /\ NodeAt(data, Target(NameIndices(ZeroKey(MaxDepth)))) = V_v

-----------------------------------------------------------------------------
(* C9 *)

\* some step of k has Ordinal index 0
HasIndex0(k) == \E i \in 1..Len(NameIndices(k)) : IsIndex0(NameIndices(k)[i])

\* C9: the base index is defined in every run, 1 unless a directive selects 0.
\* No run ends on reading it; a placed key with an Ordinal 0 step has recorded
\* the WARNING unless the run is zero_indexed, and then nothing is recorded.
C9_BaseIndexDefined ==
    /\ exc # "AttributeError"
    /\ \A k \in placed :
          HasIndex0(k) => (InReport(report, WarnIndex0) <=> "zero_indexed" \notin prepro)

-----------------------------------------------------------------------------
(* C10 *)

\* the index text of some '+'-segment of k is 'units', in any case
HasUnitsSegment(k) ==
    \E i \in 1..Len(Conditions(k)) :
        /\ Find(Conditions(k)[i], ".") # 0
        /\ Lower(Split1(Conditions(k)[i], ".")[2]) = _UNITS_LABEL

\* nothing is placed and nothing recorded by this step
NothingPlaced ==
    /\ data' = data
    /\ name_cache' = name_cache
    /\ placed' = placed
    /\ report' = report
    /\ exc' = "none"

\* C10 as claimed: a key with 'units' as the index text of any '+'-segment is
\* not structural: nothing is placed for it.
C10_AnyUnitsSegment ==
    [][ \A k \in KeyPool : (Taken(k) /\ HasUnitsSegment(k)) => NothingPlaced ]_vars

\* C10 as amended: a key is not structural when the whole text after its first
\* '.' is 'units', in any case: nothing is placed for it and its entry stays.  A
\* key where 'units' is the index text of a later segment is compiled, with the
\* Label 'units', and placed like any compound key.
C10_WholeIndexUnits ==
    [][ \A k \in KeyPool :
          /\ (Taken(k) /\ Find(k, ".") # 0 /\ Lower(KeyIndex(k)) = _UNITS_LABEL)
                => NothingPlaced
          /\ (/\ Taken(k)
              /\ HasUnitsSegment(k)
              /\ Find(k, ".") # 0
              /\ Lower(KeyIndex(k)) # _UNITS_LABEL
              /\ exc' = "none")
                => /\ k \in placed'
                   /\ NodeAt(data', Target(NameIndices(k))) = data.d[k] ]_vars

\* a.UNITS has been visited: it is still a key of the mapping, nothing was built
C10_Witness ==
    /\ key = K_aUNITS
    /\ K_aUNITS \in DOMAIN data.d
    /\ name_cache = {}
    /\ pc = "parsed"

-----------------------------------------------------------------------------
(* C11 *)

\* every dict of the tree under node, node included
RECURSIVE DictsIn(_)
DictsIn(node) ==
    IF node.t = "dict"
    THEN {node} \cup UNION {DictsIn(node.d[k]) : k \in DOMAIN node.d}
    ELSE IF node.t = "list"
    THEN UNION {DictsIn(node.l[i]) : i \in 1..Len(node.l)}
    ELSE {}

\* the units annotation the split of name.<token> should store
UnitsValue(token) ==
    Str(IF Lower(token) \in Units THEN Lower(token) ELSE token)

\* this step of parse_keys splits key k into name and name.units
SplitsUnits(k) == Taken(k) /\ InReport(report', NoteUnits(k))

\* process_units, were it called on key k of dict d, stores what it should
WalkSplitRight(d, k) ==
    LET a == process_units(d, k, <<>>)
    IN  a.status # NoStatus
           => /\ a.d[a.status[1] \o <<".">> \o _UNITS_LABEL]
                    = UnitsValue(Split1(k, ".")[2])
              /\ a.d[a.status[1]] = d[k]

\* C11: whenever a key name.<token> is split into the base key name and the
\* annotation name.units, by the top-level key pass or by the units rule of the
\* walk, name.units holds the token in lower case if that is a known unit and
\* the token as written otherwise, and name holds the value the key had.
C11_UnitsSplit ==
    [][ /\ \A k \in KeyPool :
              SplitsUnits(k)
                 => /\ data'.d[KeyName(k) \o <<".">> \o _UNITS_LABEL]
                          = UnitsValue(KeyIndex(k))
                    /\ data'.d[KeyName(k)] = data.d[k]
        /\ \A n \in DictsIn(data) : \A k \in DOMAIN n.d : WalkSplitRight(n.d, k)
      ]_vars

\* the part of C11 about the walk alone
C11_WalkPart ==
    \A n \in DictsIn(data) : \A k \in DOMAIN n.d : WalkSplitRight(n.d, k)

-----------------------------------------------------------------------------
(* C12 *)

\* the hot keys of the merged conventions that match key k
Matching(k) == {regex \in DOMAIN merged_conv(conventions) : Matches(regex, k)}

\* C12: during the walk at most one action is called for a visited key,
\* whatever the conventions and however many hot keys match the key: between
\* two calls the loop over the keys has taken another key.
C12_OneActionPerKey ==
    \A i, j \in 1..Len(log) :
        (i < j /\ log[i].ev = "call" /\ log[j].ev = "call")
           => \E m \in (i + 1)..(j - 1) : log[m].ev = "key"

\* a key that two hot keys match has been visited, and an action was called
C12_Witness ==
    \E i \in 1..Len(log) :
        /\ log[i].ev = "call"
        /\ Cardinality(Matching(log[i].key)) >= 2

-----------------------------------------------------------------------------
(* C13 *)

\* neither ^_\d+_$ nor name.suffix with a suffix other than units
IsNormalKey(k) ==
    /\ ~ReDigits(k)
    /\ ReUnits(k) => Lower(Split1(k, ".")[2]) = _UNITS_LABEL

\* no dict of the tree holds a key the default rules are meant to rewrite
Normalized(node) == \A n \in DictsIn(node) : \A k \in DOMAIN n.d : IsNormalKey(k)

\* set(rep)
Messages(rep) == {rep[i] : i \in 1..Len(rep)}

\* this step is a call of process_values
WalkStep == walks' = walks + 1

\* C13: the default conventions on a normalized tree (no key matching ^_\d+_$,
\* no name.suffix key other than name.units) do nothing: the tree after the walk
\* is the tree before it, and a second run adds no message to the set of
\* diagnostics.
C13_NormalizedNoOp ==
    [][ (WalkStep /\ conventions = EmptyD /\ Normalized(data))
           => /\ data' = data
              /\ walks >= 1 => Messages(report') = Messages(report) ]_vars

\* a key that is the text of one of the four default hot keys
IsHotKeyText(k) == k \in DOMAIN _get_default_conventions

\* C13 for trees in which no key is the text of a pattern
C13_WithoutPatternText ==
    [][ (/\ WalkStep /\ conventions = EmptyD /\ Normalized(data)
         /\ \A n \in DictsIn(data) : \A k \in DOMAIN n.d :
               ~(IsHotKeyText(k) /\ k[1] = "^"))
           => /\ data' = data
              /\ walks >= 1 => Messages(report') = Messages(report) ]_vars

-----------------------------------------------------------------------------
(* C14 *)

\* C14: the caller's conventions override a default with the same hot key (the
\* action called for a hot key the caller gave is the caller's), and a walk with
\* clear_default_actions() leaves the tree and the report as they were.
C14_CustomOverrides ==
    [][ WalkStep
           => /\ \A i \in 1..Len(log') :
                    (log'[i].ev = "call" /\ log'[i].regex \in DOMAIN conventions)
                       => log'[i].action = conventions[log'[i].regex]
              /\ conventions = clear_default_actions
                    => data' = data /\ report' = report ]_vars

\* a walk with clear_default_actions() has met a key of the form _N_ or
\* name.suffix and called the empty action for it
C14_Witness ==
    /\ conventions = clear_default_actions
    /\ \E i \in 1..Len(log) :
          /\ log[i].ev = "call"
          /\ log[i].regex \in {M_digits, M_units}
          /\ log[i].action = "_do_nothing"

-----------------------------------------------------------------------------
(* C15 *)

\* C15: the walk is pre-order with rename before descent.  The keys a pass takes
\* are keys the dict had when it was entered, each at most once, so a key put in
\* by a rename is not taken in that pass.  The action is called right after its
\* key is taken, before the value is read; the value is read, and from there
\* descended into, under the new key when the action returned one (never under
\* the key it replaced) and under the key itself otherwise.
C15_RenameBeforeDescent ==
    \A i \in 1..Len(log) :
        /\ log[i].ev = "key"
              => /\ log[log[i].pass].ev = "enter"
                 /\ log[i].key \in log[log[i].pass].snap
                 /\ \A j \in 1..(i - 1) :
                       (log[j].ev = "key" /\ log[j].pass = log[i].pass)
                          => log[j].key # log[i].key
                 /\ i < Len(log) => log[i + 1].ev \in {"call", "get"}
        /\ log[i].ev = "call"
              => /\ log[i - 1].ev = "key"
                 /\ log[i - 1].key = log[i].key
                 /\ i < Len(log) => log[i + 1].ev = "get"
        /\ log[i].ev = "get"
              => /\ log[i - 1].ev \in {"key", "call"}
                 /\ log[i - 1].pass = log[i].pass
                 /\ IF log[i - 1].status # NoStatus
                    THEN /\ log[i].key = log[i - 1].status[1]
                         /\ log[i].key # log[i - 1].key
                    ELSE log[i].key = log[i - 1].key

\* an action renamed a key whose value is a dict, and the walk went into the
\* value under the new key and took a key there
C15_Witness ==
    \E i \in 1..Len(log) :
        /\ log[i].ev = "call"
        /\ log[i].status # NoStatus
        /\ i + 3 <= Len(log)
        /\ log[i + 1].ev = "get"
        /\ log[i + 2].ev = "enter"
        /\ log[i + 3].ev = "key"
        /\ log[i].status[1] \notin log[log[i].pass].snap

-----------------------------------------------------------------------------
(* C16 *)

\* s is t or the beginning of t
IsPrefix(s, t) == Len(s) <= Len(t) /\ SubSeq(t, 1, Len(s)) = s

\* the compound keys of mapping f
Compound(f) == {k \in DOMAIN f : IsCompiled(k)}

\* f holds simple and compound keys only; the compound keys agree in kind
\* wherever they share a prefix, and the path of none is the path of another
\* or its beginning
OrderFree(f) ==
    /\ \A k \in DOMAIN f : IsValidVar(k) \/ IsCompiled(k)
    /\ \A k1, k2 \in Compound(f) :
          k1 # k2 =>
             LET n1 == NameIndices(k1)
                 n2 == NameIndices(k2)
             IN  /\ \A i \in 1..Len(n1) :
                       (i <= Len(n2) /\ PathTo(n1, i) = PathTo(n2, i))
                          => n1[i].isint = n2[i].isint
                 /\ ~IsPrefix(Target(n1), Target(n2))

\* the compound keys of todo placed one after the other, from acc on
RECURSIVE PlaceAll(_, _, _)
PlaceAll(todo, bi, acc) ==
    IF todo = <<>> \/ acc.exc # "none" THEN acc
    ELSE LET k == Head(todo)
             r == AddDatum(acc.node, NameIndices(k), acc.node.d[k], acc.cache,
                           acc.report, bi)
         IN  PlaceAll(Tail(todo), bi,
                      [r EXCEPT !.node = IF r.exc = "none"
                                         THEN DictV(DictDel(r.node.d, k))
                                         ELSE r.node])

\* parse_keys on mapping f with its compound keys taken in the order of Before
InOrder(f, bi) ==
    PlaceAll(Sorted(Compound(f), FALSE), bi, Out(DictV(f), {}, <<>>, "none"))

\* C16: placement does not depend on the order of the keys.  For a mapping
\* whose compound keys agree in kind on shared prefixes and address positions
\* none of which lies on the path to another, every order in which the loop
\* takes the keys ends with the same tree and the same set of messages, and
\* every order fails if one does.
C16_OrderIndependent ==
    OrderFree(flat)
       => /\ pc = "parsed"
                => /\ InOrder(flat, base_index).exc = "none"
                   /\ data = InOrder(flat, base_index).node
                   /\ Messages(report) = Messages(InOrder(flat, base_index).report)
          /\ pc = "aborted" => InOrder(flat, base_index).exc # "none"

\* two compound keys that start at the same name have been placed
C16_Witness ==
    /\ pc = "parsed"
    /\ OrderFree(flat)
    /\ \E k1, k2 \in placed :
          /\ k1 # k2
          /\ PathTo(NameIndices(k1), 1) = PathTo(NameIndices(k2), 1)

-----------------------------------------------------------------------------
(* C17 *)

\* C17: one run of the default walk leaves a normalized tree (no key matching
\* ^_\d+_$ and no name.suffix key with a suffix other than units, in any dict),
\* so that a second run of the default walk changes nothing.
C17_OneRunNormalizes ==
    [][ (WalkStep /\ conventions = EmptyD /\ exc' = "none")
           => /\ Normalized(data')
              /\ walks >= 1 => data' = data ]_vars

-----------------------------------------------------------------------------
(* C18 *)

\* the default hot keys that match key k
DefaultsMatching(k) ==
    {regex \in DOMAIN _get_default_conventions : Matches(regex, k)}

\* what a default walk of the present tree gives with hot_keys in order h
DefaultWalk(h, rev) ==
    LET r == walk_values(data, [conv |-> _get_default_conventions,
                                hot_keys |-> h, rev |-> rev], report, <<>>)
    IN  <<r.node, r.report, r.exc>>

\* C18: the four default hot keys are pairwise disjoint, no key of the tree is
\* matched by two of them, and so the tree and the messages the default walk
\* gives do not depend on the order in which conventions.keys() lists them.
C18_DefaultsDisjoint ==
    /\ \A n \in DictsIn(data) : \A k \in DOMAIN n.d :
          Cardinality(DefaultsMatching(k)) <= 1
    /\ \A rev \in BOOLEAN :
          \E one \in {DefaultWalk(<<M_random_seed, M_mouse, M_digits, M_units>>,
                                  rev)} :
             \A h \in HotKeys(_get_default_conventions) :
                DefaultWalk(h, rev) = one

\* a default walk has called the actions of two different hot keys, one of
\* them on a key inside the value of the other's key
C18_Witness ==
    /\ conventions = EmptyD
    /\ \E i, j \in 1..Len(log) :
          /\ log[i].ev = "call" /\ log[i].regex = M_units
          /\ log[j].ev = "call" /\ log[j].regex = M_digits

=============================================================================
